---- MODULE Spec2Model ----
(***************************************************************************)
(* A model of the per-actor message-processing engine that the Cajun docs  *)
(* describe: the MailboxProcessor batch loop with its supervision and      *)
(* deferred-restart mechanism (docs/advanced/supervision.md,               *)
(* docs/advanced/batching-optimization.md) and the backpressure gate in    *)
(* front of the mailbox (the Backpressure page, performance/               *)
(* recommendations.md).                                                    *)
(***************************************************************************)
EXTENDS Integers, Sequences, FiniteSets, TLC

(***************************************************************************)
(* Bounds of the model.                                                    *)
(***************************************************************************)
MaxSend == 2
MaxBatch == 2
MaxFailures == 1
MaxThreads == 3

Producers == {"p", "q"}
Capacities == {1, 2}
Strategies == {"RESUME", "RESTART", "STOP", "ESCALATE"}
Threads == 1 .. MaxThreads

\* A message is <<producer, sequence number of the producer>>.
Messages == Producers \X (1 .. (MaxSend + 1))

VARIABLES
  \* ---- the actor and its MailboxProcessor
  mailbox,           \* the bounded FIFO (LinkedBlockingQueue)
  batchBuffer,       \* MailboxProcessor.batchBuffer
  processedCount,    \* the for loop's counter of dispatched batch messages
  unwindIdx,         \* i of the loop that returns unprocessed messages
  running,           \* volatile boolean running
  restartRequested,  \* volatile boolean restartRequested
  pendingRestart,    \* the deferred restart callback, <<>> when null
  stopRequested,     \* a STOP / ESCALATE decision is pending
  stopped,           \* the actor reached Stopped
  escalated,         \* the failure was handed to the parent
  tpc,               \* each execution unit's position
  shouldRestart,     \* each loop invocation's local shouldRestart
  closure,           \* the callback an execution unit is running
  cur,               \* the latest execution unit started
  actorState,        \* the actor's state: messages handled since it started
  \* ---- configuration, fixed at construction
  strategy,
  errorHook,         \* the handler's onError capability
  batchSize,
  capacity,          \* the bounded mailbox's capacity
  sendLimit,         \* how many messages the producers send in the run
  \* ---- environment and history
  sentBy,            \* per producer: number of messages sent
  accepted,          \* messages whose tell put them into the mailbox
  log,               \* the handler's invocations, in order
  grants,            \* failed messages re-sent for reprocessing
  failures,          \* handler exceptions so far
  decisions,         \* Supervisor decisions so far
  recording,         \* the history (log, grants, failures) is kept
  poison,            \* messages whose handling always throws
  lastUnwind,        \* [batch, k, reprocess] of the latest interrupted batch
  \* ---- the backpressure gate (its own mailbox)
  bpQueue,
  bpState,
  bpConfig,
  bpStrategy,
  bpNextId,
  bpResult,
  bpOp,
  bpHyst,            \* CRITICAL was reached and the size has not been <= 3 since
  \* ---- callers of tellWithOptions
  snd,               \* each sender's call: idle, or blocked in the BLOCK strategy
  \* ---- a supervision hierarchy
  hStrategy,         \* each actor's configured SupervisionStrategy
  hActor,            \* each actor's status, state, execution unit and mailbox
  hEsc,              \* the escalation in progress, <<>> when none
  hLast,             \* the outcome of the latest supervised failure
  hSent,             \* messages sent into the hierarchy
  hFailed,           \* handler failures in the hierarchy
  \* ---- sender context propagation
  cxMailbox,         \* each actor's queued envelopes
  cxCur,             \* the envelope an actor's handler is processing
  cxSender,          \* each actor's thread-local sender context
  cxSent,            \* envelopes sent so far
  \* ---- a second manager with the same thresholds, on its own mailbox
  twQueue,
  twState,
  \* ---- monitoring of the backpressure state
  monitoring,        \* a callback is registered and the history is read
  bpHistory,         \* the retained StateTransitions, oldest first
  bpEvents,          \* events the callback got from the latest manager step
  bpClock            \* the manager's clock, for the events' timestamps

loopVars == <<mailbox, batchBuffer, processedCount, unwindIdx, running,
              restartRequested, pendingRestart, stopRequested, stopped,
              escalated, tpc, shouldRestart, closure, cur, actorState, strategy,
              sendLimit, capacity, batchSize, sentBy, accepted, log, grants, failures,
              recording, poison, lastUnwind, errorHook, decisions>>
bpVars == <<bpQueue, bpState, bpConfig, bpStrategy, bpNextId, bpResult, bpOp,
            bpHyst>>
sndVars == <<snd>>
treeVars == <<hStrategy, hActor, hEsc, hLast, hSent, hFailed>>
ctxVars == <<cxMailbox, cxCur, cxSender, cxSent>>
twinVars == <<twQueue, twState>>
evVars == <<monitoring, bpHistory, bpEvents, bpClock>>
vars == <<loopVars, bpVars, sndVars, treeVars, ctxVars, twinVars, evVars>>

(***************************************************************************)
(* Mailbox: LinkedMailbox over java.util.concurrent.LinkedBlockingQueue.   *)
(***************************************************************************)
\* An offer that does not look at the capacity.
offerUnbounded(q) == TRUE

\* Mailbox.offer: non-blocking, appends at the tail, false when full.
offerOk(q) == Len(q) < capacity

offer(q, m) == IF offerOk(q) THEN Append(q, m) ELSE q

\* Mailbox.drainTo(buffer, maxCount): the first maxCount queued messages.
Min(a, b) == IF a < b THEN a ELSE b

\* A drain that takes everything that is queued.
drainAll(q, maxCount) == Len(q)

drainCount(q, maxCount) == Min(Len(q), maxCount)

(***************************************************************************)
(* Supervisor: the decision tree of the Supervision appendix.              *)
(***************************************************************************)
\* A Supervisor that lets the handler's hint choose the directive.
decideByHint(strat, reprocess) ==
  IF reprocess THEN [kind |-> "RESTART", shouldReprocess |-> TRUE]
  ELSE CASE strat = "RESUME"   -> [kind |-> "CONTINUE", shouldReprocess |-> FALSE]
         [] strat = "RESTART"  -> [kind |-> "RESTART", shouldReprocess |-> FALSE]
         [] strat = "STOP"     -> [kind |-> "STOP", shouldReprocess |-> FALSE]
         [] strat = "ESCALATE" -> [kind |-> "ESCALATE", shouldReprocess |-> FALSE]

\* A Supervisor whose RESUME falls through to RESTART.
resumeAsRestart(strat, reprocess) ==
  CASE strat = "RESUME"   -> [kind |-> "RESTART", shouldReprocess |-> reprocess]
    [] strat = "RESTART"  -> [kind |-> "RESTART", shouldReprocess |-> reprocess]
    [] strat = "STOP"     -> [kind |-> "STOP", shouldReprocess |-> FALSE]
    [] strat = "ESCALATE" -> [kind |-> "ESCALATE", shouldReprocess |-> FALSE]

\* RESUME: continue processing next message (failed message lost unless
\* shouldReprocess = true); RESTART: request restart, reprocess the failed
\* message if shouldReprocess = true; STOP; ESCALATE.
decide(strat, reprocess) ==
  CASE strat = "RESUME"   -> [kind |-> "CONTINUE", shouldReprocess |-> reprocess]
    [] strat = "RESTART"  -> [kind |-> "RESTART", shouldReprocess |-> reprocess]
    [] strat = "STOP"     -> [kind |-> "STOP", shouldReprocess |-> FALSE]
    [] strat = "ESCALATE" -> [kind |-> "ESCALATE", shouldReprocess |-> FALSE]

\* The exceptions a handler throws, and the handlers' error hooks: none, or
\* one that asks for reprocessing after an IOException only.
Exceptions == {"IllegalStateException", "IOException"}

Hooks == {"none", "byType"}

\* shouldReprocess of a handler without an error hook.
hookDefault == FALSE

\* actor.onError(message, exception) -> shouldReprocess
onError(hook, e) == IF hook = "none" THEN hookDefault ELSE e = "IOException"

\* handleException as it was overridden before the fix: supervision only
\* if the handler's onError returned false.
supervisionUnlessHandled(handled) == ~handled

\* Supervision always runs, whatever onError returned.
supervisionRuns(handled) == TRUE

(***************************************************************************)
(* Positions of an execution unit.                                         *)
(***************************************************************************)
LoopPcs == {"poll", "drain", "for", "handling", "resend", "unwind"}

\* The catch block without its processedCount++.
countNotIncremented(n) == n

\* processedCount after a message that threw (catch block: processedCount++).
countAfterFailure(n) == n + 1

\* The restart callback run inside the while loop: the unit loops on.
AfterCallbackInLoop == "poll"

\* Where the old execution unit goes once the restart callback has run: the
\* callback runs after the while loop, so the unit ends.
AfterCallback == "done"

NoUnwind == [batch |-> <<>>, k |-> 0, reprocess |-> FALSE,
             done |-> FALSE, polled |-> FALSE, at |-> 0]

\* The state an actor is created with.
initialState == 0

\* A restart that carries the old state over.
stateKept(st) == st

\* RESTART: reset to initial state.
stateAfterRestart(st) == initialState

\* The actors of the pipeline grandparent -> parent -> child; no sender.
Actors == {"grandparent", "parent", "child"}

NoSender == "none"

\* No envelope sent, no handler running, every sender context empty.
CtxIdle ==
  /\ cxMailbox = [a \in Actors |-> <<>>]
  /\ cxCur = [a \in Actors |-> <<>>]
  /\ cxSender = [a \in Actors |-> NoSender]
  /\ cxSent = 0

LoopStart ==
  /\ CtxIdle
  /\ mailbox = <<>>
  /\ batchBuffer = <<>>
  /\ processedCount = 0
  /\ unwindIdx = 0
  /\ running = TRUE
  /\ restartRequested = FALSE
  /\ pendingRestart = <<>>
  /\ stopRequested = FALSE
  /\ stopped = FALSE
  /\ escalated = FALSE
  /\ tpc = [t \in Threads |-> IF t = 1 THEN "poll" ELSE "idle"]
  /\ shouldRestart = [t \in Threads |-> FALSE]
  /\ closure = [t \in Threads |-> <<>>]
  /\ cur = 1
  /\ actorState = initialState
  /\ strategy \in Strategies
  /\ errorHook \in Hooks
  /\ batchSize \in 1 .. MaxBatch
  /\ capacity \in Capacities
  /\ sentBy = [p \in Producers |-> 0]
  /\ accepted = {}
  /\ log = <<>>
  /\ grants = <<>>
  /\ failures = 0
  /\ decisions = 0
  /\ lastUnwind = NoUnwind

\* Runs with arbitrary handler failures, at most MaxFailures of them.
LoopInit ==
  LoopStart /\ recording = TRUE /\ poison = {} /\ sendLimit = MaxSend

\* The same runs with one more message sent.
WideInit ==
  LoopStart /\ recording = TRUE /\ poison = {} /\ sendLimit = MaxSend + 1

\* Runs with a poison message: its handling throws every time.
PoisonInit ==
  LoopStart /\ recording = FALSE /\ poison = {<<"p", 1>>}
            /\ sendLimit = MaxSend /\ errorHook = "byType"

(***************************************************************************)
(* A producer's tell: no backpressure configured, so the message is        *)
(* offered to the mailbox (tryTell's last branch).  A Pid whose actor has  *)
(* stopped fails the send.                                                 *)
(***************************************************************************)
TotalSent == LET S[ps \in SUBSET Producers] ==
                   IF ps = {} THEN 0
                   ELSE LET x == CHOOSE y \in ps : TRUE
                        IN sentBy[x] + S[ps \ {x}]
             IN S[Producers]

\* A Pid whose actor has stopped fails the send.
sendFails == stopped

Tell(p) ==
  /\ UNCHANGED <<actorState, errorHook, decisions>>
  /\ TotalSent < sendLimit
  /\ LET m == <<p, sentBy[p] + 1>> IN
       /\ sentBy' = [sentBy EXCEPT ![p] = @ + 1]
       /\ IF sendFails
            THEN UNCHANGED <<mailbox, accepted>>
            ELSE /\ mailbox' = offer(mailbox, m)
                 /\ accepted' = IF offerOk(mailbox) THEN accepted \cup {m}
                                ELSE accepted
  /\ UNCHANGED <<batchBuffer, processedCount, unwindIdx, running,
                 restartRequested, pendingRestart, stopRequested, stopped,
                 escalated, tpc, shouldRestart, closure, cur, strategy, sendLimit, capacity, recording, poison,
                 batchSize, log, grants, failures, lastUnwind>>

(***************************************************************************)
(* MailboxProcessor loop: while (running) { batchBuffer.clear();           *)
(*   first = mailbox.poll(timeout); if (first == null) continue; ...       *)
(***************************************************************************)
Poll(t) ==
  /\ UNCHANGED <<actorState, errorHook, decisions>>
  /\ tpc[t] = "poll"
  /\ IF ~running
       THEN /\ tpc' = [tpc EXCEPT ![t] = "exit"]
            /\ UNCHANGED <<mailbox, batchBuffer, processedCount, lastUnwind>>
       ELSE /\ mailbox # <<>>
            /\ batchBuffer' = <<Head(mailbox)>>
            /\ mailbox' = Tail(mailbox)
            /\ processedCount' = 0
            /\ lastUnwind' = [lastUnwind EXCEPT !.polled = TRUE]
            /\ tpc' = [tpc EXCEPT ![t] = IF batchSize > 1 THEN "drain" ELSE "for"]
  /\ UNCHANGED <<unwindIdx, running, restartRequested, pendingRestart,
                 stopRequested, stopped, escalated, shouldRestart, closure,
                 cur, strategy, sendLimit, capacity, recording, poison, batchSize, sentBy, accepted, log, grants,
                 failures>>

\* mailbox.drainTo(batchBuffer, batchSize - 1)
Drain(t) ==
  /\ UNCHANGED <<actorState, errorHook, decisions>>
  /\ tpc[t] = "drain"
  /\ LET n == drainCount(mailbox, batchSize - 1) IN
       /\ batchBuffer' = batchBuffer \o SubSeq(mailbox, 1, n)
       /\ mailbox' = SubSeq(mailbox, n + 1, Len(mailbox))
  /\ tpc' = [tpc EXCEPT ![t] = "for"]
  /\ UNCHANGED <<processedCount, unwindIdx, running, restartRequested,
                 pendingRestart, stopRequested, stopped, escalated,
                 shouldRestart, closure, cur, strategy, sendLimit, capacity, recording, poison, batchSize, sentBy,
                 accepted, log, grants, failures, lastUnwind>>

\* A for loop that does not look at the restart flag.
restartFlagIgnored(flag) == FALSE

\* For loop: if (restartRequested) break;
restartBreak(flag) == flag

\* The for loop stops consuming the batch when a RESTART, STOP or ESCALATE
\* decision is pending.
batchInterrupted == restartBreak(restartRequested) \/ stopRequested

\* After the for loop: if (restartRequested) { shouldRestart = true;
\*   restartRequested = false; running = false; break; }   A pending stop
\* leaves the while loop the same way; otherwise the loop polls again.
EndFor(t) ==
  IF restartRequested
    THEN /\ shouldRestart' = [shouldRestart EXCEPT ![t] = TRUE]
         /\ restartRequested' = FALSE
         /\ running' = FALSE
         /\ tpc' = [tpc EXCEPT ![t] = "exit"]
    ELSE IF stopRequested
      THEN /\ running' = FALSE
           /\ tpc' = [tpc EXCEPT ![t] = "exit"]
           /\ UNCHANGED <<shouldRestart, restartRequested>>
      ELSE /\ tpc' = [tpc EXCEPT ![t] = "poll"]
           /\ UNCHANGED <<shouldRestart, restartRequested, running>>

\* Top of a for-loop iteration: leave when the batch is done, break (after
\* returning the unprocessed messages) when a restart or stop is pending,
\* otherwise hand the next message to the handler.
ForStep(t) ==
  /\ UNCHANGED <<actorState, errorHook, decisions>>
  /\ tpc[t] = "for"
  /\ IF processedCount >= Len(batchBuffer)
       THEN /\ EndFor(t)
            /\ UNCHANGED <<unwindIdx, log>>
       ELSE IF batchInterrupted
         THEN /\ unwindIdx' = processedCount + 1
              /\ tpc' = [tpc EXCEPT ![t] = "unwind"]
              /\ UNCHANGED <<log, shouldRestart, restartRequested, running>>
         ELSE /\ log' = IF recording
                         THEN Append(log, batchBuffer[processedCount + 1])
                         ELSE log
              /\ tpc' = [tpc EXCEPT ![t] = "handling"]
              /\ UNCHANGED <<unwindIdx, shouldRestart, restartRequested,
                             running>>
  /\ UNCHANGED <<mailbox, batchBuffer, processedCount, pendingRestart,
                 stopRequested, stopped, escalated, closure, cur, strategy, sendLimit, capacity, recording, poison,
                 batchSize, sentBy, accepted, grants, failures, lastUnwind>>

\* lifecycle.receive(msg) returns normally: processedCount++.
HandleOk(t) ==
  /\ UNCHANGED <<errorHook, decisions>>
  /\ actorState' = actorState + 1
  /\ tpc[t] = "handling"
  /\ batchBuffer[processedCount + 1] \notin poison
  /\ processedCount' = processedCount + 1
  /\ tpc' = [tpc EXCEPT ![t] = "for"]
  /\ UNCHANGED <<mailbox, batchBuffer, unwindIdx, running, restartRequested,
                 pendingRestart, stopRequested, stopped, escalated,
                 shouldRestart, closure, cur, strategy, sendLimit, capacity, recording, poison, batchSize, sentBy,
                 accepted, log, grants, failures, lastUnwind>>

\* A restart carried out synchronously, during batch processing.
restartInPlace(kind, reprocess) ==
  IF kind = "RESTART" THEN "cb_start"
  ELSE IF kind = "CONTINUE" /\ reprocess THEN "resend" ELSE "for"

\* actor.requestRestart(callback) only signals the restart request: the
\* exception handler returns into the for loop; under RESUME it first
\* re-sends the failed message if shouldReprocess = true.
afterDecision(kind, reprocess) ==
  IF kind = "CONTINUE" /\ reprocess THEN "resend" ELSE "for"

\* lifecycle.receive(msg) throws: exceptionHandler.accept(msg, e) asks
\* onError for shouldReprocess, applies the strategy, then processedCount++.
HandleThrow(t) ==
  /\ UNCHANGED actorState
  /\ tpc[t] = "handling"
  /\ IF recording THEN failures < MaxFailures
                  ELSE batchBuffer[processedCount + 1] \in poison
  /\ failures' = IF recording THEN failures + 1 ELSE failures
  /\ \E e \in Exceptions :
       LET msg == batchBuffer[processedCount + 1]
           r == onError(errorHook, e)
           supervised == supervisionRuns(r)
           d == IF supervised THEN decide(strategy, r)
                ELSE [kind |-> "NONE", shouldReprocess |-> FALSE]
       IN /\ decisions' = IF recording /\ supervised THEN decisions + 1
                           ELSE decisions
          /\ restartRequested' = (restartRequested \/ d.kind = "RESTART")
          /\ pendingRestart' =
               IF d.kind = "RESTART"
                 THEN <<[msg |-> msg, reprocess |-> d.shouldReprocess]>>
                 ELSE pendingRestart
          /\ stopRequested' = (stopRequested \/ d.kind \in {"STOP", "ESCALATE"})
          /\ escalated' = (escalated \/ d.kind = "ESCALATE")
          /\ lastUnwind' =
               IF d.kind = "RESTART"
                 THEN [batch |-> batchBuffer, k |-> processedCount + 1,
                       reprocess |-> d.shouldReprocess, done |-> FALSE,
                       polled |-> FALSE, at |-> Len(log)]
                 ELSE lastUnwind
          /\ tpc' = [tpc EXCEPT ![t] = afterDecision(d.kind, d.shouldReprocess)]
  /\ processedCount' = countAfterFailure(processedCount)
  /\ UNCHANGED <<mailbox, batchBuffer, unwindIdx, running, stopped,
                 shouldRestart, closure, cur, strategy, sendLimit, capacity, recording, poison, batchSize, sentBy,
                 accepted, log, grants, errorHook>>

\* RESUME with shouldReprocess = true: the failed message is not lost, it
\* is sent to the actor again (actor.tell(message)); the loop goes on.
Resend(t) ==
  /\ UNCHANGED <<actorState, errorHook, decisions>>
  /\ tpc[t] = "resend"
  /\ LET m == batchBuffer[processedCount] IN
       /\ mailbox' = offer(mailbox, m)
       /\ grants' = IF recording /\ offerOk(mailbox) THEN Append(grants, m)
                    ELSE grants
  /\ tpc' = [tpc EXCEPT ![t] = "for"]
  /\ UNCHANGED <<batchBuffer, processedCount, unwindIdx, running,
                 restartRequested, pendingRestart, stopRequested, stopped,
                 escalated, shouldRestart, closure, cur, strategy, sendLimit,
                 capacity, recording, poison, batchSize, sentBy, accepted, log,
                 failures, lastUnwind>>

\* for (i = processedCount; i < batchBuffer.size(); i++)
\*     mailbox.offer(batchBuffer.get(i));   then break
Unwind(t) ==
  /\ UNCHANGED <<actorState, errorHook, decisions>>
  /\ tpc[t] = "unwind"
  /\ mailbox' = offer(mailbox, batchBuffer[unwindIdx])
  /\ unwindIdx' = unwindIdx + 1
  /\ IF unwindIdx < Len(batchBuffer)
       THEN UNCHANGED <<tpc, shouldRestart, restartRequested, running>>
       ELSE EndFor(t)
  /\ UNCHANGED <<batchBuffer, processedCount, pendingRestart, stopRequested,
                 stopped, escalated, closure, cur, strategy, sendLimit, capacity, recording, poison, batchSize, sentBy,
                 accepted, log, grants, failures, lastUnwind>>

\* After the while loop: if (shouldRestart && pendingRestart != null)
\*   pendingRestart.run();   The callback starts with actor.stopForRestart(),
\* which preserves the mailbox.  A pending stop discards the mailbox.
\* A stop that leaves the queued messages in the mailbox.
mailboxKept(q) == q

\* actor.stop(): actor terminated, mailbox cleared.
mailboxCleared(q) == <<>>

Exit(t) ==
  /\ UNCHANGED <<actorState, errorHook, decisions>>
  /\ tpc[t] = "exit"
  /\ IF shouldRestart[t] /\ pendingRestart # <<>>
       THEN /\ closure' = [closure EXCEPT ![t] = pendingRestart]
            /\ running' = FALSE
            /\ tpc' = [tpc EXCEPT ![t] = "cb_start"]
            /\ UNCHANGED <<mailbox, stopped>>
       ELSE IF stopRequested
         THEN /\ mailbox' = mailboxCleared(mailbox)
              /\ stopped' = TRUE
              /\ tpc' = [tpc EXCEPT ![t] = "done"]
              /\ UNCHANGED <<closure, running>>
         ELSE /\ tpc' = [tpc EXCEPT ![t] = "done"]
              /\ UNCHANGED <<mailbox, stopped, closure, running>>
  /\ UNCHANGED <<batchBuffer, processedCount, unwindIdx, restartRequested,
                 pendingRestart, stopRequested, escalated, shouldRestart, cur,
                 strategy, sendLimit, capacity, recording, poison, batchSize, sentBy, accepted, log, grants, failures,
                 lastUnwind>>

\* The execution unit start() creates: one that never ran, or, when every
\* identifier has been used, the identifier of a unit that has ended.
FreeUnits == {u \in Threads : tpc[u] \in {"idle", "done"}}

NewUnit ==
  IF \E u \in FreeUnits : tpc[u] = "idle"
    THEN CHOOSE u \in FreeUnits :
           tpc[u] = "idle" /\ \A v \in FreeUnits : tpc[v] = "idle" => u <= v
    ELSE CHOOSE u \in FreeUnits : \A v \in FreeUnits : u <= v

\* actor.start(): a new execution unit runs the loop.
CbStart(t) ==
  /\ UNCHANGED <<errorHook, decisions>>
  /\ tpc[t] = "cb_start"
  /\ FreeUnits # {}
  /\ running' = TRUE
  /\ actorState' = stateAfterRestart(actorState)
  /\ cur' = NewUnit
  /\ tpc' = [tpc EXCEPT ![t] = IF closure[t][1].reprocess THEN "cb_tell"
                                 ELSE "cb_clear",
                        ![NewUnit] = "poll"]
  /\ UNCHANGED <<mailbox, batchBuffer, processedCount, unwindIdx,
                 restartRequested, pendingRestart, stopRequested, stopped,
                 escalated, shouldRestart, closure, strategy, sendLimit, capacity, recording, poison, batchSize,
                 sentBy, accepted, log, grants, failures, lastUnwind>>

\* if (shouldReprocess) actor.tell(message);
CbTell(t) ==
  /\ UNCHANGED <<actorState, errorHook, decisions>>
  /\ tpc[t] = "cb_tell"
  /\ LET m == closure[t][1].msg IN
       /\ mailbox' = offer(mailbox, m)
       /\ grants' = IF recording /\ offerOk(mailbox) THEN Append(grants, m)
                    ELSE grants
  /\ tpc' = [tpc EXCEPT ![t] = "cb_clear"]
  /\ UNCHANGED <<batchBuffer, processedCount, unwindIdx, running,
                 restartRequested, pendingRestart, stopRequested, stopped,
                 escalated, shouldRestart, closure, cur, strategy, sendLimit, capacity, recording, poison, batchSize,
                 sentBy, accepted, log, failures, lastUnwind>>

\* The restart callback is cleared after it ran; the old unit ends.
CbClear(t) ==
  /\ UNCHANGED <<actorState, errorHook, decisions>>
  /\ tpc[t] = "cb_clear"
  /\ pendingRestart' = <<>>
  /\ lastUnwind' = [lastUnwind EXCEPT !.done = TRUE]
  /\ tpc' = [tpc EXCEPT ![t] = AfterCallback]
  /\ UNCHANGED <<mailbox, batchBuffer, processedCount, unwindIdx, running,
                 restartRequested, stopRequested, stopped, escalated,
                 shouldRestart, closure, cur, strategy, sendLimit, capacity, recording, poison, batchSize, sentBy,
                 accepted, log, grants, failures>>

\* No second manager in use, no callback registered.
AuxIdle ==
  /\ twQueue = <<>>
  /\ twState = "NORMAL"
  /\ monitoring = FALSE
  /\ bpHistory = <<>>
  /\ bpEvents = <<>>
  /\ bpClock = 0

\* The callers of tellWithOptions; a caller that is not in a call.
Senders == {"s1", "s2"}

NoCall == [pc |-> "idle", msg |-> 0, timeout |-> 0, elapsed |-> 0]

NoOutcome ==
  [failing |-> "none", kind |-> "NONE", hops |-> 0, unit |-> 0, n |-> 0]

\* A newly started actor: initial state, first execution unit, empty mailbox.
Started == [status |-> "running", state |-> 0, unit |-> 1, mailbox |-> <<>>]

TreeIdle ==
  /\ hStrategy = [a \in Actors |-> "STOP"]
  /\ hActor = [a \in Actors |-> Started]
  /\ hEsc = <<>>
  /\ hLast = NoOutcome
  /\ hSent = 0
  /\ hFailed = 0

GateIdle ==
  /\ bpQueue = <<>>
  /\ bpState = "NORMAL"
  /\ bpConfig = [capacity |-> 0, warning |-> 0, critical |-> 0, recovery |-> 0]
  /\ bpStrategy = "BLOCK"
  /\ bpNextId = 1
  /\ bpResult = TRUE
  /\ bpOp = "none"
  /\ bpHyst = FALSE
  /\ AuxIdle
  /\ snd = [s \in Senders |-> NoCall]

BpIdle == GateIdle /\ TreeIdle

Init == LoopInit /\ BpIdle

\* The loop's execution units are scheduled fairly; producers need not send.
LoopStep ==
  \E t \in Threads :
    /\ \/ Poll(t) \/ Drain(t) \/ ForStep(t) \/ HandleOk(t) \/ HandleThrow(t)
       \/ Resend(t) \/ Unwind(t) \/ Exit(t)
       \/ CbStart(t) \/ CbTell(t) \/ CbClear(t)
    /\ UNCHANGED <<bpVars, sndVars, treeVars, ctxVars, twinVars, evVars>>


Next ==
  \/ \E p \in Producers : Tell(p) /\ UNCHANGED <<bpVars, sndVars, treeVars, ctxVars, twinVars, evVars>>
  \/ LoopStep

Spec == Init /\ [][Next]_vars

\* actor.stop() called from outside the actor: stopping sets the running
\* flag, which the loop observes; the stop stays requested until an
\* execution unit has left the loop and the actor is Stopped.
ActorStop ==
  /\ ~stopped
  /\ ~stopRequested
  /\ running' = FALSE
  /\ stopRequested' = TRUE
  /\ UNCHANGED <<mailbox, batchBuffer, processedCount, unwindIdx,
                 restartRequested, pendingRestart, stopped, escalated, tpc,
                 shouldRestart, closure, cur, actorState, strategy, sendLimit,
                 capacity, batchSize, sentBy, accepted, log, grants, failures,
                 recording, poison, lastUnwind, errorHook, decisions>>
  /\ UNCHANGED <<bpVars, sndVars, treeVars, ctxVars, twinVars, evVars>>

StopNext == Next \/ ActorStop

\* The loop's execution units are scheduled fairly; nobody has to send or
\* to stop the actor.
StopSpec == Init /\ [][StopNext]_vars /\ WF_vars(LoopStep)

InitWide == WideInit /\ BpIdle

WideSpec == InitWide /\ [][Next]_vars

FairSpec == InitWide /\ [][Next]_vars /\ WF_vars(LoopStep)

InitPoison == PoisonInit /\ BpIdle

\* The loop while no handler throws: producers, poll, drain and the for
\* loop over the batch.
BatchNext ==
  \/ \E p \in Producers : Tell(p) /\ UNCHANGED <<bpVars, sndVars, treeVars, ctxVars, twinVars, evVars>>
  \/ \E t \in Threads :
       /\ Poll(t) \/ Drain(t) \/ ForStep(t) \/ HandleOk(t)
       /\ UNCHANGED <<bpVars, sndVars, treeVars, ctxVars, twinVars, evVars>>

BatchSpec == InitWide /\ [][BatchNext]_vars

PoisonSpec == InitPoison /\ [][Next]_vars /\ WF_vars(LoopStep)

(***************************************************************************)
(* The backpressure gate: BackpressureManager in front of a bounded        *)
(* mailbox.  Thresholds are kept in percent; fillRatio = size / capacity.  *)
(***************************************************************************)
IdSpace == 12

BpStrategies == {"BLOCK", "DROP_NEW", "DROP_OLDEST"}

BpConfigs ==
  { [capacity |-> 10, warning |-> 50, critical |-> 90, recovery |-> 30],
    [capacity |-> 3, warning |-> 50, critical |-> 90, recovery |-> 30] }

\* The state machine without its RECOVERY state.
stateWithoutHysteresis(st, size, cfg) ==
  IF size * 100 >= cfg.critical * cfg.capacity THEN "CRITICAL"
  ELSE IF size * 100 >= cfg.warning * cfg.capacity THEN "WARNING"
  ELSE "NORMAL"

\* A state machine that never reaches CRITICAL.
stateNeverCritical(st, size, cfg) ==
  IF size * 100 >= cfg.warning * cfg.capacity THEN "WARNING" ELSE "NORMAL"

\* A state machine that stays CRITICAL until the recovery threshold.
criticalLatched(st, size, cfg) ==
  IF size * 100 >= cfg.critical * cfg.capacity THEN "CRITICAL"
  ELSE IF st = "CRITICAL" /\ size * 100 > cfg.recovery * cfg.capacity
    THEN "CRITICAL"
  ELSE IF size * 100 >= cfg.warning * cfg.capacity THEN "WARNING"
  ELSE "NORMAL"

\* BackpressureState after the metrics were updated with the mailbox size:
\* CRITICAL at or above the critical threshold; RECOVERY coming from
\* CRITICAL, below critical but above the recovery threshold; WARNING from
\* the warning threshold on; NORMAL otherwise.
nextState(st, size, cfg) ==
  IF size * 100 >= cfg.critical * cfg.capacity THEN "CRITICAL"
  ELSE IF st \in {"CRITICAL", "RECOVERY"} /\ size * 100 > cfg.recovery * cfg.capacity
    THEN "RECOVERY"
  ELSE IF size * 100 >= cfg.warning * cfg.capacity THEN "WARNING"
  ELSE "NORMAL"

\* Backpressure that is already active in WARNING.
activeFromWarning(st) == st \in {"WARNING", "CRITICAL", "RECOVERY"}

\* Backpressure is activated at the critical threshold and deactivated at
\* the recovery threshold.
isBackpressureActive(st) == st \in {"CRITICAL", "RECOVERY"}

\* backpressureManager.shouldAcceptMessage(options): NORMAL and WARNING are
\* still accepting messages; while backpressure is active the strategy
\* (handleMessage) answers.
shouldAcceptMessage(st, highPriority) == TRUE

\* An eviction that takes the newest message.
dropNewestMessage(q) == SubSeq(q, 1, Len(q) - 1)

\* Actor.dropOldestMessage: removes the head of the mailbox.
dropOldestMessage(q) == IF q = <<>> THEN q ELSE Tail(q)

\* A rejection that still makes room.
dropNewEvicting(q, m) == [queue |-> dropOldestMessage(q), accepted |-> FALSE]

\* DROP_NEW: the new message is rejected, older messages are kept.
dropNew(q, m) == [queue |-> q, accepted |-> FALSE]

\* DROP_OLDEST: remove the oldest message to make room for the new one.
dropOldest(q, m) == [queue |-> Append(dropOldestMessage(q), m), accepted |-> TRUE]

\* BLOCK: mailbox.put, the sender waits while the mailbox is full.
blockPut(q, m) == [queue |-> Append(q, m), accepted |-> TRUE]

\* backpressureManager.handleMessage(message, options)
handleMessage(q, m, strat) ==
  CASE strat = "DROP_NEW"    -> dropNew(q, m)
    [] strat = "DROP_OLDEST" -> dropOldest(q, m)
    [] strat = "BLOCK"       -> blockPut(q, m)

\* Monitoring: the transition history keeps the latest MaxHistory
\* transitions; the manager's clock is followed up to MaxClock.
MaxHistory == 2
MaxClock == 2

\* StateTransition / BackpressureEvent: old state, new state, fill ratio in
\* percent, timestamp.
StateTransition(old, new, size, ts) ==
  [from |-> old, to |-> new, fill |-> (size * 100) \div bpConfig.capacity,
   at |-> ts]

\* The bounded transition history: the oldest entry makes room.
retained(h, e) ==
  LET all == Append(h, e) IN IF Len(all) > MaxHistory THEN Tail(all) ELSE all

\* An observer that is also called when the state stays as it is.
emitsAlways(old, new) == TRUE

\* The callback is invoked on a state transition.
emits(old, new) == old # new

\* The manager's bookkeeping after it recomputed the state from the mailbox
\* size: on a transition the event goes to the callback, synchronously, and
\* into the transition history.
Observe(size) ==
  /\ monitoring' = monitoring
  /\ bpClock' = IF monitoring THEN Min(bpClock + 1, MaxClock) ELSE bpClock
  /\ LET e == StateTransition(bpState, bpState', size, bpClock')
     IN IF monitoring /\ emits(bpState, bpState')
          THEN /\ bpHistory' = retained(bpHistory, e)
               /\ bpEvents' = <<e>>
          ELSE /\ bpHistory' = bpHistory
               /\ bpEvents' = <<>>

\* The hysteresis episode as the sizes alone tell it (capacity 10).
hystAfter(h, size) == IF size >= 9 THEN TRUE ELSE IF size <= 3 THEN FALSE ELSE h

\* The loop's variables while only the gate is exercised.
LoopIdle ==
  /\ LoopStart
  /\ recording = TRUE /\ poison = {} /\ sendLimit = 0
  /\ strategy = "RESUME" /\ batchSize = 1 /\ capacity = 1
  /\ errorHook = "none"

BpInit ==
  /\ bpQueue = <<>>
  /\ bpState = "NORMAL"
  /\ bpConfig \in BpConfigs
  /\ bpStrategy \in BpStrategies
  /\ bpNextId = 1
  /\ bpResult = TRUE
  /\ bpOp = "none"
  /\ bpHyst = FALSE
  /\ AuxIdle
  /\ snd = [s \in Senders |-> NoCall]
  /\ TreeIdle

\* tryTell(message, options) followed by the metrics update.
TryTell ==
  /\ LET m == bpNextId
         active == isBackpressureActive(bpState)
         r == IF ~shouldAcceptMessage(bpState, FALSE)
                THEN [queue |-> bpQueue, accepted |-> FALSE]
              ELSE IF active THEN handleMessage(bpQueue, m, bpStrategy)
              ELSE [queue |-> Append(bpQueue, m), accepted |-> TRUE]
     IN /\ (active /\ bpStrategy = "BLOCK") => Len(bpQueue) < bpConfig.capacity
        /\ Len(r.queue) <= bpConfig.capacity
        /\ bpQueue' = r.queue
        /\ bpResult' = r.accepted
        /\ bpOp' = IF active THEN bpStrategy ELSE "offer"
        /\ bpState' = nextState(bpState, Len(r.queue), bpConfig)
        /\ bpHyst' = hystAfter(bpHyst, Len(r.queue))
  /\ bpNextId' = (bpNextId % IdSpace) + 1
  /\ UNCHANGED <<bpConfig, bpStrategy>>
  /\ UNCHANGED <<loopVars, sndVars, treeVars, ctxVars, twinVars>>
  /\ Observe(Len(bpQueue'))

\* The consumer takes the head; the metrics are updated.
BpPoll ==
  /\ bpQueue # <<>>
  /\ bpQueue' = Tail(bpQueue)
  /\ bpOp' = "poll"
  /\ bpState' = nextState(bpState, Len(bpQueue) - 1, bpConfig)
  /\ bpHyst' = hystAfter(bpHyst, Len(bpQueue) - 1)
  /\ UNCHANGED <<bpConfig, bpStrategy, bpNextId, bpResult>>
  /\ UNCHANGED <<loopVars, sndVars, treeVars, ctxVars, twinVars>>
  /\ Observe(Len(bpQueue'))

BpNext == TryTell \/ BpPoll

InitBp == BpInit /\ LoopIdle

BpSpec == InitBp /\ [][BpNext]_vars

\* The gate with a callback registered (withCallback) and its transition
\* history read.
InitEvent ==
  /\ LoopIdle
  /\ bpQueue = <<>>
  /\ bpState = "NORMAL"
  /\ bpConfig \in BpConfigs
  /\ bpStrategy \in BpStrategies
  /\ bpNextId = 1
  /\ bpResult = TRUE
  /\ bpOp = "none"
  /\ bpHyst = FALSE
  /\ twQueue = <<>>
  /\ twState = "NORMAL"
  /\ monitoring = TRUE
  /\ bpHistory = <<>>
  /\ bpEvents = <<>>
  /\ bpClock = 0
  /\ snd = [s \in Senders |-> NoCall]
  /\ TreeIdle

EventSpec == InitEvent /\ [][BpNext]_vars

Canon == [capacity |-> 10, warning |-> 50, critical |-> 90, recovery |-> 30]

(***************************************************************************)
(* Sending with options: tellWithOptions(pid, message, options).  A call   *)
(* that the BLOCK strategy suspends stays with its caller until the        *)
(* mailbox has room or the call's timeout has elapsed.                     *)
(***************************************************************************)
MaxTimeout == 2

\* BackpressureSendOptions; timeout 0 stands for no timeout.
SendOptions ==
  [highPriority : BOOLEAN, blockUntilAccepted : BOOLEAN,
   timeout : 0 .. MaxTimeout]

\* setBlockUntilAccepted(true) asks for blocking whatever the strategy is.
effectiveStrategy(o) == IF o.blockUntilAccepted THEN "BLOCK" ELSE bpStrategy

\* Mailbox.offer on the gate's bounded mailbox.
gateOffer(q, m) == IF Len(q) < bpConfig.capacity THEN Append(q, m) ELSE q

\* A high-priority message that is still handed to the strategy.
priorityThroughGate(o) == FALSE

\* setHighPriority(true): the message bypasses backpressure.
bypassesGate(o) == o.highPriority

\* A timed wait that gives up at once.
timedOutAtOnce(elapsed, timeout) == timeout > 0

\* A wait in which no timeout counts as a timeout of zero.
timedOutWithoutTimeout(elapsed, timeout) == elapsed >= timeout

\* The timed wait of a blocked send is over.
timedOut(elapsed, timeout) == timeout > 0 /\ elapsed >= timeout

\* mailbox.put must wait: the mailbox is full.
mustWait(q) == Len(q) >= bpConfig.capacity

Blocked(s) == snd[s].pc = "blocked"

\* The message a sender sends: each sender repeats its own payload.
payload(s) == IF s = "s1" THEN 1 ELSE 2

\* The queue, the result and the state after a send that completed.
Completed(q, res, op) ==
  /\ bpQueue' = q
  /\ bpResult' = res
  /\ bpOp' = op
  /\ bpState' = nextState(bpState, Len(q), bpConfig)
  /\ bpHyst' = hystAfter(bpHyst, Len(q))

TellWithOptions(s, o) ==
  /\ snd[s].pc = "idle"
  /\ LET m == payload(s)
         strat == effectiveStrategy(o)
     IN IF ~shouldAcceptMessage(bpState, o.highPriority)
          THEN /\ Completed(bpQueue, FALSE, "refused")
               /\ UNCHANGED snd
          ELSE IF bypassesGate(o)
          THEN /\ Completed(gateOffer(bpQueue, m), TRUE,
                            IF mustWait(bpQueue) THEN "priority_full"
                            ELSE "priority")
               /\ UNCHANGED snd
          ELSE IF isBackpressureActive(bpState)
            THEN IF strat = "BLOCK" /\ mustWait(bpQueue)
                   THEN /\ snd' = [snd EXCEPT ![s] =
                                     [pc |-> "blocked", msg |-> m,
                                      timeout |-> o.timeout, elapsed |-> 0]]
                        /\ bpOp' = "wait"
                        /\ UNCHANGED <<bpQueue, bpResult, bpState, bpHyst>>
                   ELSE LET r == handleMessage(bpQueue, m, strat)
                        IN /\ Completed(r.queue, r.accepted, strat)
                           /\ UNCHANGED snd
            ELSE /\ Completed(gateOffer(bpQueue, m), TRUE, "offer")
                 /\ UNCHANGED snd
  /\ UNCHANGED <<bpConfig, bpStrategy, bpNextId>>
  /\ UNCHANGED <<loopVars, treeVars, ctxVars, twinVars>>
  /\ Observe(Len(bpQueue'))

\* Time passes for a caller waiting with a timeout.
Tick(s) ==
  /\ Blocked(s)
  /\ snd[s].elapsed < snd[s].timeout
  /\ snd[s].timeout > 0
  /\ snd' = [snd EXCEPT ![s].elapsed = @ + 1]
  /\ UNCHANGED <<loopVars, bpVars, treeVars, ctxVars, twinVars, evVars>>

\* The mailbox has room: the waiting put completes and the call returns true.
BlockedPut(s) ==
  /\ Blocked(s)
  /\ ~mustWait(bpQueue)
  /\ Completed(Append(bpQueue, snd[s].msg), TRUE,
               IF snd[s].timeout = 0 THEN "put" ELSE "timed_put")
  /\ snd' = [snd EXCEPT ![s] = NoCall]
  /\ UNCHANGED <<bpConfig, bpStrategy, bpNextId>>
  /\ UNCHANGED <<loopVars, treeVars, ctxVars, twinVars>>
  /\ Observe(Len(bpQueue'))

\* The timeout has elapsed: the call returns false, nothing is enqueued.
BlockedTimeout(s) ==
  /\ Blocked(s)
  /\ timedOut(snd[s].elapsed, snd[s].timeout)
  /\ bpResult' = FALSE
  /\ bpOp' = "timeout"
  /\ snd' = [snd EXCEPT ![s] = NoCall]
  /\ UNCHANGED <<bpQueue, bpState, bpHyst, bpConfig, bpStrategy, bpNextId>>
  /\ UNCHANGED <<loopVars, treeVars, ctxVars, twinVars, evVars>>

\* The mailboxes the senders of this part meet: three places with the
\* thresholds of the Backpressure page, five places with the thresholds
\* initializeBackpressure sets (CRITICAL with one place left).
SendConfigs ==
  {c \in BpConfigs : c.capacity = 3}
    \cup {[capacity |-> 5, warning |-> 70, critical |-> 80, recovery |-> 50]}

InitSend ==
  /\ LoopIdle
  /\ bpQueue = <<>>
  /\ bpState = "NORMAL"
  /\ bpConfig \in SendConfigs
  /\ bpStrategy \in BpStrategies
  /\ bpNextId = 1
  /\ bpResult = TRUE
  /\ bpOp = "none"
  /\ bpHyst = FALSE
  /\ AuxIdle
  /\ snd = [s \in Senders |-> NoCall]
  /\ TreeIdle

SendNext ==
  \/ \E s \in Senders, o \in SendOptions : TellWithOptions(s, o)
  \/ \E s \in Senders : Tick(s)
  \/ \E s \in Senders : BlockedPut(s)
  \/ \E s \in Senders : BlockedTimeout(s)
  \/ BpPoll

SendSpec == InitSend /\ [][SendNext]_vars

\* Time passes and a timed wait returns; the consumer may never poll.
TimedSpec ==
  /\ InitSend
  /\ [][SendNext]_vars
  /\ \A s \in Senders : WF_vars(Tick(s)) /\ WF_vars(BlockedTimeout(s))

\* The consumer keeps polling, and a put that can complete again and again
\* eventually does.
DrainSpec ==
  /\ InitSend
  /\ [][SendNext]_vars
  /\ WF_vars(BpPoll)
  /\ \A s \in Senders : SF_vars(BlockedPut(s))

(***************************************************************************)
(* BackpressureStrategy.CUSTOM: the manager delegates to a                 *)
(* CustomBackpressureHandler (handleMessage decides whether to accept the  *)
(* message, makeRoom makes room in the mailbox).                           *)
(***************************************************************************)
\* The makeRoom implementations of the documentation: one that drops the
\* oldest message, one that returns true and leaves the mailbox alone, and
\* one that returns false.
MakeRooms == {"dropOldest", "nothing", "refuses"}

makeRoom(q, impl) == IF impl = "dropOldest" THEN dropOldestMessage(q) ELSE q

\* A manager that makes room before it asks the handler.
customMakeRoomFirst(q, m, accepts, impl) ==
  LET q2 == IF Len(q) >= bpConfig.capacity THEN makeRoom(q, impl) ELSE q
  IN IF ~accepts
       THEN [queue |-> q2, accepted |-> FALSE, calls |-> "makeRoom,shouldAccept"]
       ELSE [queue |-> gateOffer(q2, m),
             accepted |-> Len(q2) < bpConfig.capacity,
             calls |-> "makeRoom,shouldAccept,offer"]

\* The manager calls shouldAccept first; if true but the mailbox is still
\* full, it calls makeRoom before retrying the offer.
customHandle(q, m, accepts, impl) ==
  IF ~accepts
    THEN [queue |-> q, accepted |-> FALSE, calls |-> "shouldAccept"]
  ELSE IF Len(q) < bpConfig.capacity
    THEN [queue |-> Append(q, m), accepted |-> TRUE,
          calls |-> "shouldAccept,offer"]
  ELSE LET q2 == makeRoom(q, impl)
       IN [queue |-> gateOffer(q2, m),
           accepted |-> Len(q2) < bpConfig.capacity,
           calls |-> "shouldAccept,makeRoom,offer"]

\* tryTell under the CUSTOM strategy, then the metrics update.  The sender
\* of a rejected message sends that message again.
CustomTell ==
  /\ bpStrategy = "CUSTOM"
  /\ \E accepts \in BOOLEAN, impl \in MakeRooms :
       LET m == bpNextId
           active == isBackpressureActive(bpState)
           r == IF active THEN customHandle(bpQueue, m, accepts, impl)
                ELSE [queue |-> gateOffer(bpQueue, m), accepted |-> TRUE,
                      calls |-> "offer"]
       IN /\ bpQueue' = r.queue
          /\ bpResult' = r.accepted
          /\ bpOp' = r.calls
          /\ bpState' = nextState(bpState, Len(r.queue), bpConfig)
          /\ bpHyst' = hystAfter(bpHyst, Len(r.queue))
          /\ bpNextId' = IF r.accepted THEN (bpNextId % IdSpace) + 1
                         ELSE bpNextId
  /\ UNCHANGED <<bpConfig, bpStrategy>>
  /\ UNCHANGED <<loopVars, sndVars, treeVars, ctxVars, twinVars>>
  /\ Observe(Len(bpQueue'))

InitCustom ==
  /\ LoopIdle
  /\ bpQueue = <<>>
  /\ bpState = "NORMAL"
  /\ bpConfig \in BpConfigs
  /\ bpStrategy = "CUSTOM"
  /\ bpNextId = 1
  /\ bpResult = TRUE
  /\ bpOp = "none"
  /\ bpHyst = FALSE
  /\ AuxIdle
  /\ snd = [s \in Senders |-> NoCall]
  /\ TreeIdle

CustomNext == CustomTell \/ BpPoll

CustomSpec == InitCustom /\ [][CustomNext]_vars

(***************************************************************************)
(* Two managers with the same thresholds and the same strategy, each in    *)
(* front of its own mailbox.                                               *)
(***************************************************************************)
\* tryTell on the second manager's mailbox, then its metrics update.
TwinTell ==
  /\ LET active == isBackpressureActive(twState)
         r == IF active THEN handleMessage(twQueue, 0, bpStrategy)
              ELSE [queue |-> Append(twQueue, 0), accepted |-> TRUE]
     IN /\ (active /\ bpStrategy = "BLOCK") => Len(twQueue) < bpConfig.capacity
        /\ Len(r.queue) <= bpConfig.capacity
        /\ twQueue' = r.queue
        /\ twState' = nextState(twState, Len(r.queue), bpConfig)
  /\ UNCHANGED <<loopVars, bpVars, sndVars, treeVars, ctxVars, evVars>>

\* The second mailbox's consumer takes the head; the metrics are updated.
TwinPoll ==
  /\ twQueue # <<>>
  /\ twQueue' = Tail(twQueue)
  /\ twState' = nextState(twState, Len(twQueue) - 1, bpConfig)
  /\ UNCHANGED <<loopVars, bpVars, sndVars, treeVars, ctxVars, evVars>>

InitTwin ==
  /\ LoopIdle
  /\ bpQueue = <<>>
  /\ bpState = "NORMAL"
  /\ bpConfig \in SendConfigs
  /\ bpStrategy \in BpStrategies
  /\ bpNextId = 1
  /\ bpResult = TRUE
  /\ bpOp = "none"
  /\ bpHyst = FALSE
  /\ AuxIdle
  /\ snd = [s \in Senders |-> NoCall]
  /\ TreeIdle

TwinNext == TryTell \/ BpPoll \/ TwinTell \/ TwinPoll

TwinSpec == InitTwin /\ [][TwinNext]_vars

(***************************************************************************)
(* The actor's own mailbox behind the backpressure gate: the producer      *)
(* sends with tryTell while the MailboxProcessor loop polls, drains,       *)
(* returns unprocessed messages and restarts.  The manager's state follows *)
(* the sends at once and the loop's removals with the next metrics update. *)
(***************************************************************************)
GateProducers == {"p"}

\* The thresholds of the Backpressure page on the actor's mailbox.
ownConfig ==
  [capacity |-> capacity, warning |-> Canon.warning,
   critical |-> Canon.critical, recovery |-> Canon.recovery]

\* tryTell(message, options) on the actor's mailbox; a BLOCK put waits
\* until the mailbox has room.
GateTell(p, hp) ==
  /\ TotalSent < sendLimit
  /\ ~sendFails
  /\ LET m == <<p, sentBy[p] + 1>>
         o == [highPriority |-> hp, blockUntilAccepted |-> FALSE, timeout |-> 0]
         active == isBackpressureActive(bpState)
         op == IF ~shouldAcceptMessage(bpState, hp) THEN "refused"
               ELSE IF bypassesGate(o) THEN "priority"
               ELSE IF active THEN bpStrategy ELSE "offer"
         r == CASE op = "refused" -> [queue |-> mailbox, accepted |-> FALSE]
                [] op \in {"priority", "offer"}
                     -> [queue |-> offer(mailbox, m), accepted |-> TRUE]
                [] OTHER -> handleMessage(mailbox, m, bpStrategy)
     IN /\ op = "BLOCK" => Len(mailbox) < capacity
        /\ mailbox' = r.queue
        /\ accepted' = IF \E i \in 1 .. Len(r.queue) : r.queue[i] = m
                         THEN accepted \cup {m}
                       ELSE accepted
        /\ bpResult' = r.accepted
        /\ bpOp' = op
        /\ bpState' = nextState(bpState, Len(r.queue), bpConfig)
  /\ sentBy' = [sentBy EXCEPT ![p] = @ + 1]
  /\ UNCHANGED <<batchBuffer, processedCount, unwindIdx, running,
                 restartRequested, pendingRestart, stopRequested, stopped,
                 escalated, tpc, shouldRestart, closure, cur, actorState,
                 strategy, sendLimit, capacity, batchSize, log, grants,
                 failures, recording, poison, lastUnwind, errorHook, decisions>>
  /\ UNCHANGED <<bpQueue, bpConfig, bpStrategy, bpNextId, bpHyst>>
  /\ UNCHANGED <<sndVars, treeVars, ctxVars, twinVars>>
  /\ Observe(Len(mailbox'))

\* updateBackpressureMetrics: the periodic update with the mailbox size.
UpdateMetrics ==
  /\ bpState' = nextState(bpState, Len(mailbox), bpConfig)
  /\ bpState' # bpState
  /\ bpOp' = "metrics"
  /\ UNCHANGED <<bpQueue, bpConfig, bpStrategy, bpNextId, bpResult, bpHyst>>
  /\ UNCHANGED <<loopVars, sndVars, treeVars, ctxVars, twinVars>>
  /\ Observe(Len(mailbox))

InitOwn ==
  /\ LoopInit
  /\ bpQueue = <<>>
  /\ bpState = "NORMAL"
  /\ bpConfig = ownConfig
  /\ bpStrategy \in BpStrategies
  /\ bpNextId = 1
  /\ bpResult = TRUE
  /\ bpOp = "none"
  /\ bpHyst = FALSE
  /\ AuxIdle
  /\ snd = [s \in Senders |-> NoCall]
  /\ TreeIdle

OwnNext ==
  \/ \E p \in GateProducers, hp \in BOOLEAN : GateTell(p, hp)
  \/ UpdateMetrics
  \/ LoopStep

OwnSpec == InitOwn /\ [][OwnNext]_vars

\* The message of a suspended call: the call keeps the sequence number, the
\* producer is the gate's producer.
pendingMessage(s) == <<CHOOSE p \in GateProducers : TRUE, snd[s].msg>>

\* BLOCK on the actor's full mailbox: the sender's call is suspended in
\* mailbox.put until space is available.
GateBlock(s, p) ==
  /\ snd[s].pc = "idle"
  /\ TotalSent < sendLimit
  /\ ~sendFails
  /\ isBackpressureActive(bpState)
  /\ bpStrategy = "BLOCK"
  /\ Len(mailbox) >= capacity
  /\ snd' = [snd EXCEPT ![s] = [pc |-> "blocked", msg |-> sentBy[p] + 1,
                                timeout |-> 0, elapsed |-> 0]]
  /\ sentBy' = [sentBy EXCEPT ![p] = @ + 1]
  /\ bpOp' = "wait"
  /\ UNCHANGED <<mailbox, batchBuffer, processedCount, unwindIdx, running,
                 restartRequested, pendingRestart, stopRequested, stopped,
                 escalated, tpc, shouldRestart, closure, cur, actorState,
                 strategy, sendLimit, capacity, batchSize, accepted, log,
                 grants, failures, recording, poison, lastUnwind, errorHook,
                 decisions>>
  /\ UNCHANGED <<bpQueue, bpState, bpConfig, bpStrategy, bpNextId, bpResult,
                 bpHyst>>
  /\ UNCHANGED <<treeVars, ctxVars, twinVars, evVars>>

\* Space is available: the suspended put completes, the call returns true.
GatePut(s) ==
  /\ Blocked(s)
  /\ Len(mailbox) < capacity
  /\ mailbox' = Append(mailbox, pendingMessage(s))
  /\ accepted' = accepted \cup {pendingMessage(s)}
  /\ bpResult' = TRUE
  /\ bpOp' = "put"
  /\ bpState' = nextState(bpState, Len(mailbox) + 1, bpConfig)
  /\ snd' = [snd EXCEPT ![s] = NoCall]
  /\ UNCHANGED <<batchBuffer, processedCount, unwindIdx, running,
                 restartRequested, pendingRestart, stopRequested, stopped,
                 escalated, tpc, shouldRestart, closure, cur, actorState,
                 strategy, sendLimit, capacity, batchSize, sentBy, log, grants,
                 failures, recording, poison, lastUnwind, errorHook, decisions>>
  /\ UNCHANGED <<bpQueue, bpConfig, bpStrategy, bpNextId, bpHyst>>
  /\ UNCHANGED <<treeVars, ctxVars, twinVars>>
  /\ Observe(Len(mailbox'))

BlockNext ==
  \/ OwnNext
  \/ \E s \in Senders, p \in GateProducers : GateBlock(s, p)
  \/ \E s \in Senders : GatePut(s)

\* The loop's execution units are scheduled fairly, and a suspended put
\* that can complete again and again eventually does.
BlockSpec ==
  /\ InitOwn
  /\ [][BlockNext]_vars
  /\ WF_vars(LoopStep)
  /\ \A s \in Senders : SF_vars(GatePut(s))

(***************************************************************************)
(* Hierarchical supervision: the ESCALATE branch of the decision tree.     *)
(* ESCALATE -> actor.stop() -> parent.handleChildError(child, exception)   *)
(* -> apply the parent's supervision strategy to the child.                *)
(***************************************************************************)
MaxTreeSend == 2
MaxTreeFailures == 2

parentOf(a) ==
  CASE a = "child"  -> "parent"
    [] a = "parent" -> "grandparent"
    [] OTHER        -> "none"

depthOf(a) ==
  CASE a = "grandparent" -> 0
    [] a = "parent"      -> 1
    [] a = "child"       -> 2

\* An actor and the actors below it: stopping an actor shuts them down too.
Below(a) == {b \in Actors : depthOf(b) >= depthOf(a)}

\* An actor that has no parent: the default is STOP.
rootDefault == "STOP"

\* The parent's strategy applied to the supervising actor itself.
applyToSupervisor(failing, level) == level

\* The actor the parent's strategy is applied to: the child that failed.
applyTo(failing, level) == failing

\* An escalation that passes over the next ancestor.
levelSkipped(b) == parentOf(parentOf(b))

\* The Supervisor asked next when an actor escalates: its parent.
nextLevel(b) == parentOf(b)

\* actor.stop(): the actor is terminated, its messages are lost.
stopActor(r) == [r EXCEPT !.status = "stopped", !.mailbox = <<>>]

\* Stopping actor a in the hierarchy h: cascading shutdown.
stopTree(h, a) ==
  [b \in Actors |-> IF b \in Below(a) THEN stopActor(h[b]) ELSE h[b]]

\* Restart: initial state, a new execution unit, the mailbox q.
restartActor(r, q) ==
  [status |-> "running", state |-> 0, unit |-> r.unit + 1, mailbox |-> q]

\* The directive kind k applied to actor record r whose mailbox is then q;
\* resumed tells whether CONTINUE leaves the actor running.
applyDirective(r, k, q, resumed) ==
  CASE k = "CONTINUE" -> IF resumed THEN [r EXCEPT !.mailbox = q] ELSE r
    [] k = "RESTART"  -> restartActor(r, q)
    [] k = "STOP"     -> stopActor(r)
    [] OTHER          -> stopActor(r)

TreeInit ==
  /\ hStrategy \in [Actors -> Strategies]
  /\ hActor = [a \in Actors |-> Started]
  /\ hEsc = <<>>
  /\ hLast = NoOutcome
  /\ hSent = 0
  /\ hFailed = 0

\* tell: appended to the mailbox of a running actor; fails on a stopped one.
TreeTell(a) ==
  /\ hSent < MaxTreeSend
  /\ hSent' = hSent + 1
  /\ hActor' = IF hActor[a].status = "running"
                 THEN [hActor EXCEPT ![a].mailbox = Append(@, hSent + 1)]
                 ELSE hActor
  /\ UNCHANGED <<hStrategy, hEsc, hLast, hFailed>>
  /\ UNCHANGED <<loopVars, bpVars, sndVars, ctxVars, twinVars, evVars>>

\* The handler processes the head of the mailbox and updates its state.
TreeHandle(a) ==
  /\ hActor[a].status = "running"
  /\ hActor[a].mailbox # <<>>
  /\ hActor' = [hActor EXCEPT ![a].mailbox = Tail(@), ![a].state = @ + 1]
  /\ UNCHANGED <<hStrategy, hEsc, hLast, hSent, hFailed>>
  /\ UNCHANGED <<loopVars, bpVars, sndVars, ctxVars, twinVars, evVars>>

\* The handler of actor a throws on the head of its mailbox: the actor's
\* own strategy decides; ESCALATE stops the actor and calls the parent.
TreeFail(a) ==
  /\ hActor[a].status = "running"
  /\ hActor[a].mailbox # <<>>
  /\ hEsc = <<>>
  /\ hFailed < MaxTreeFailures
  /\ hFailed' = hFailed + 1
  /\ \E r \in BOOLEAN :
       LET d == decide(hStrategy[a], r)
           msg == Head(hActor[a].mailbox)
           rest == Tail(hActor[a].mailbox)
           q == IF d.kind \in {"CONTINUE", "RESTART"} /\ d.shouldReprocess
                  THEN Append(rest, msg) ELSE rest
       IN /\ hActor' = IF d.kind \in {"STOP", "ESCALATE"}
                          THEN stopTree(hActor, a)
                          ELSE [hActor EXCEPT
                                  ![a] = applyDirective(@, d.kind, q, TRUE)]
          /\ IF d.kind = "ESCALATE"
               THEN /\ hEsc' = <<[failing |-> a, level |-> nextLevel(a),
                                  hops |-> 1, unit |-> hActor[a].unit,
                                  queued |-> rest]>>
                    /\ UNCHANGED hLast
               ELSE /\ hEsc' = <<>>
                    /\ hLast' = [failing |-> a, kind |-> d.kind, hops |-> 0,
                                 unit |-> hActor[a].unit, n |-> hLast.n + 1]
  /\ UNCHANGED <<hStrategy, hSent>>
  /\ UNCHANGED <<loopVars, bpVars, sndVars, ctxVars, twinVars, evVars>>

\* The parent's own strategy is ESCALATE: the same decision is re-run one
\* level further up.
escalatedFurther(e) ==
  [e EXCEPT !.level = nextLevel(e.level), !.hops = @ + 1]

\* parent.handleChildError(child, exception): the strategy of the actor at
\* the escalation's level is applied to the child; ESCALATE passes the
\* failure one level up; without a parent the outcome is STOP.
HandleChildError ==
  /\ hEsc # <<>>
  /\ LET e == hEsc[1]
         k == IF e.level = "none" THEN rootDefault
              ELSE decide(hStrategy[e.level], FALSE).kind
         target == applyTo(e.failing, e.level)
     IN IF k = "ESCALATE"
          THEN /\ hEsc' = <<escalatedFurther(e)>>
               /\ UNCHANGED <<hActor, hLast>>
          ELSE /\ hEsc' = <<>>
               /\ hLast' = [failing |-> e.failing, kind |-> k,
                            hops |-> e.hops, unit |-> e.unit,
                            n |-> hLast.n + 1]
               /\ \E resumed \in BOOLEAN :
                    hActor' =
                      IF k = "STOP" THEN stopTree(hActor, target)
                      ELSE [hActor EXCEPT ![target] =
                              IF k = "CONTINUE" /\ resumed
                                THEN [@ EXCEPT !.status = "running"]
                                ELSE applyDirective(@, k, @.mailbox, FALSE)]
  /\ UNCHANGED <<hStrategy, hSent, hFailed>>
  /\ UNCHANGED <<loopVars, bpVars, sndVars, ctxVars, twinVars, evVars>>

TreeNext ==
  \/ \E a \in Actors : TreeTell(a)
  \/ \E a \in Actors : TreeHandle(a)
  \/ \E a \in Actors : TreeFail(a)
  \/ HandleChildError

InitTree == LoopIdle /\ GateIdle /\ TreeInit

\* handleChildError is a call made by the failing actor's execution unit:
\* once started, the escalation proceeds.
TreeSpec == InitTree /\ [][TreeNext]_vars /\ WF_vars(HandleChildError)

(***************************************************************************)
(* Sender context propagation.  The sender context is a ThreadLocal of the *)
(* actor's execution unit; tell sends the bare message, ask makes the      *)
(* asking party the sender, forward wraps the message with                 *)
(* MessageWithSender carrying the forwarding handler's current sender; the *)
(* context is cleared after message processing.                            *)
(***************************************************************************)
MaxCtxSend == 3

\* An envelope: wrapped tells whether it is a MessageWithSender, sender is
\* the wrapper's sender.  how, origin and hops keep the history of the
\* envelope: the call that sent it, the party the call chain started from
\* and the number of forwards since.
Envelope(wrapped, sender, how, origin, hops) ==
  [wrapped |-> wrapped, sender |-> sender, how |-> how, origin |-> origin,
   hops |-> hops]

\* A context that survives the end of message processing.
contextKept(c) == c

\* Context is automatically cleared after message processing.
contextCleared(c) == NoSender

\* The sender context while an envelope is processed: the wrapper's
\* sender; a bare message sets nothing.
contextOnReceive(c, env) == IF env.wrapped THEN env.sender ELSE c

\* getSender() inside the handler of actor a.
getSender(a) == cxSender[a]

CtxEnqueue(b, env) ==
  /\ cxSent < MaxCtxSend
  /\ cxSent' = cxSent + 1
  /\ cxMailbox' = [cxMailbox EXCEPT ![b] = Append(@, env)]

\* pid.tell(message) by actor a, inside or outside its handler.
CtxTell(a, b) ==
  /\ CtxEnqueue(b, Envelope(FALSE, NoSender, "tell", NoSender, 0))
  /\ UNCHANGED <<cxCur, cxSender>>
  /\ UNCHANGED <<loopVars, bpVars, sndVars, treeVars, twinVars, evVars>>

\* a.ask(pid, message): a becomes the sender.
CtxAsk(a, b) ==
  /\ CtxEnqueue(b, Envelope(TRUE, a, "ask", a, 0))
  /\ UNCHANGED <<cxCur, cxSender>>
  /\ UNCHANGED <<loopVars, bpVars, sndVars, treeVars, twinVars, evVars>>

\* forward(pid, message) inside the handler of a: the message is wrapped
\* with the handler's current sender.
CtxForward(a, b) ==
  /\ cxCur[a] # <<>>
  /\ CtxEnqueue(b, Envelope(TRUE, getSender(a), "forward",
                            cxCur[a][1].origin, cxCur[a][1].hops + 1))
  /\ UNCHANGED <<cxCur, cxSender>>
  /\ UNCHANGED <<loopVars, bpVars, sndVars, treeVars, twinVars, evVars>>

\* The loop of actor a hands the head of its mailbox to the handler.
CtxReceive(a) ==
  /\ cxCur[a] = <<>>
  /\ cxMailbox[a] # <<>>
  /\ cxCur' = [cxCur EXCEPT ![a] = <<Head(cxMailbox[a])>>]
  /\ cxMailbox' = [cxMailbox EXCEPT ![a] = Tail(@)]
  /\ cxSender' = [cxSender EXCEPT
                    ![a] = contextOnReceive(@, Head(cxMailbox[a]))]
  /\ UNCHANGED cxSent
  /\ UNCHANGED <<loopVars, bpVars, sndVars, treeVars, twinVars, evVars>>

\* The handler of a returns: the context is cleared.
CtxDone(a) ==
  /\ cxCur[a] # <<>>
  /\ cxCur' = [cxCur EXCEPT ![a] = <<>>]
  /\ cxSender' = [cxSender EXCEPT ![a] = contextCleared(@)]
  /\ UNCHANGED <<cxMailbox, cxSent>>
  /\ UNCHANGED <<loopVars, bpVars, sndVars, treeVars, twinVars, evVars>>

CtxNext ==
  \/ \E a \in Actors : \E b \in Actors \ {a} : CtxTell(a, b)
  \/ \E a \in Actors : \E b \in Actors \ {a} : CtxAsk(a, b)
  \/ \E a \in Actors : \E b \in Actors \ {a} : CtxForward(a, b)
  \/ \E a \in Actors : CtxReceive(a)
  \/ \E a \in Actors : CtxDone(a)

InitCtx == LoopIdle /\ BpIdle

CtxSpec == InitCtx /\ [][CtxNext]_vars

(***************************************************************************)
(* C22  Sender context: the sender a handler sees is empty for a message   *)
(* sent with tell, the asking party for one sent with ask, the original    *)
(* sender for one that arrived through any number of forwards; outside     *)
(* message processing the context is empty, so no handler sees the sender  *)
(* of a previously processed message.                                      *)
(***************************************************************************)
C22_SenderContext ==
  \A a \in Actors :
    IF cxCur[a] = <<>> THEN cxSender[a] = NoSender
    ELSE LET env == cxCur[a][1]
         IN /\ getSender(a) = env.origin
            /\ env.how = "tell" => getSender(a) = NoSender
            /\ env.how = "ask" => getSender(a) # NoSender

\* After an ask, the request was forwarded twice; the handler at the end
\* sees the asking party.
C22_Witness ==
  \E a \in Actors :
    /\ cxCur[a] # <<>>
    /\ cxCur[a][1].how = "forward"
    /\ cxCur[a][1].hops = 2
    /\ getSender(a) = "grandparent"

C9_DropOldest ==
  [][ (/\ bpStrategy = "DROP_OLDEST"
       /\ isBackpressureActive(bpState)
       /\ bpNextId' # bpNextId)
      => /\ bpQueue' = Append(Tail(bpQueue), bpNextId)
         /\ Len(bpQueue') = Len(bpQueue)
         /\ bpResult' = TRUE ]_vars

\* Capacity 3: the full queue [a, b, c] has become [b, c, d].
C9_Witness ==
  /\ bpConfig.capacity = 3
  /\ bpOp = "DROP_OLDEST"
  /\ bpQueue = <<2, 3, 4>>
  /\ bpResult = TRUE

(***************************************************************************)
(* C10  DROP_NEW: when the strategy applies, a send is not blocked,        *)
(* returns a rejection and leaves the mailbox contents and their order     *)
(* unchanged.                                                              *)
(***************************************************************************)
C10_DropNew ==
  /\ [](bpStrategy = "DROP_NEW" /\ isBackpressureActive(bpState)
          => ENABLED TryTell)
  /\ [][ (/\ bpStrategy = "DROP_NEW"
          /\ isBackpressureActive(bpState)
          /\ bpNextId' # bpNextId)
         => /\ bpQueue' = bpQueue
            /\ bpResult' = FALSE ]_vars

\* A send has just been rejected under DROP_NEW with messages queued.
C10_Witness ==
  /\ bpOp = "DROP_NEW"
  /\ bpResult = FALSE
  /\ Len(bpQueue) >= 3


Deciders(a) ==
  {b \in Actors : depthOf(b) < depthOf(a) /\ hStrategy[b] # "ESCALATE"}

NearestDecider(a) ==
  CHOOSE b \in Deciders(a) : \A c \in Deciders(a) : depthOf(c) <= depthOf(b)

KindOf(strat) ==
  CASE strat = "RESUME"   -> "CONTINUE"
    [] strat = "RESTART"  -> "RESTART"
    [] strat = "STOP"     -> "STOP"
    [] strat = "ESCALATE" -> "ESCALATE"

ExpectedKind(a) ==
  IF Deciders(a) = {} THEN "STOP" ELSE KindOf(hStrategy[NearestDecider(a)])

EscalatingChild == hEsc # <<>> /\ hEsc[1].failing = "child"

(***************************************************************************)
(* C14  Escalation chain: child ESCALATE, parent RESTART.  A failure of    *)
(* the child ends with the child running again in its initial state on a   *)
(* new execution unit; no step of the supervision changes the parent's or  *)
(* the grandparent's status, state, mailbox or execution unit.             *)
(***************************************************************************)
C14_EscalationChain ==
  /\ [][ (hStrategy["child"] = "ESCALATE" /\ hStrategy["parent"] = "RESTART")
          => /\ (hEsc' # hEsc /\ (EscalatingChild \/ EscalatingChild'))
                  => /\ hActor'["parent"] = hActor["parent"]
                     /\ hActor'["grandparent"] = hActor["grandparent"]
             /\ (EscalatingChild /\ hEsc' = <<>>)
                  => /\ hActor'["child"].status = "running"
                     /\ hActor'["child"].state = 0
                     /\ hActor'["child"].unit # hEsc[1].unit ]_vars
  /\ (EscalatingChild /\ hStrategy["parent"] = "RESTART")
       ~> (hEsc = <<>> /\ hActor["child"].status = "running")

\* The child was restarted by its parent while the parent had state of its
\* own and a queued message.
C14_Witness ==
  /\ hStrategy["child"] = "ESCALATE"
  /\ hStrategy["parent"] = "RESTART"
  /\ hLast.failing = "child"
  /\ hLast.kind = "RESTART"
  /\ hActor["child"].status = "running"
  /\ hActor["child"].unit = 2
  /\ hActor["parent"].state = 1
  /\ hActor["parent"].unit = 1

(***************************************************************************)
(* C15  Escalation resolution: the outcome applied for a failure of an     *)
(* actor configured ESCALATE is the one of its nearest ancestor whose      *)
(* strategy is not ESCALATE, STOP when there is none; every escalation     *)
(* ends, with one outcome per failure.                                     *)
(***************************************************************************)
C15_EscalationResolution ==
  /\ []((hLast.failing # "none" /\ hStrategy[hLast.failing] = "ESCALATE")
          => hLast.kind = ExpectedKind(hLast.failing))
  /\ [](hLast.n = IF hEsc = <<>> THEN hFailed ELSE hFailed - 1)
  /\ [][ (hEsc # <<>> /\ hEsc' = <<>>)
           => LET a == hEsc[1].failing
              IN /\ ExpectedKind(a) = "STOP"
                     => hActor'[a].status = "stopped"
                 /\ ExpectedKind(a) = "RESTART"
                     => hActor'[a].status = "running" /\ hActor'[a].state = 0 ]_vars
  /\ (hEsc # <<>>) ~> (hEsc = <<>>)

\* The child's failure went past an escalating parent and was decided by
\* the grandparent; and an escalating root was stopped.
C15_Witness ==
  /\ hLast.failing = "child"
  /\ hLast.hops = 2
  /\ hStrategy["parent"] = "ESCALATE"
  /\ hLast.kind = "RESTART"
  /\ hActor["child"].status = "running"

(***************************************************************************)
(* Helpers for the properties.                                             *)
(***************************************************************************)
Range(q) == {q[i] : i \in 1 .. Len(q)}

Count(q, m) == Cardinality({i \in 1 .. Len(q) : q[i] = m})

FirstIdx(q, m) == CHOOSE i \in 1 .. Len(q) : q[i] = m /\ \A j \in 1 .. (i - 1) : q[j] # m

\* The batch messages the for loop has not handed to the handler.
Undispatched == SubSeq(batchBuffer, processedCount + 1, Len(batchBuffer))

\* q holds the messages of r at increasing positions.
RECURSIVE HoldsInOrder(_, _)
HoldsInOrder(r, q) ==
  IF r = <<>> THEN TRUE
  ELSE IF q = <<>> THEN FALSE
  ELSE IF Head(r) = Head(q) THEN HoldsInOrder(Tail(r), Tail(q))
  ELSE HoldsInOrder(r, Tail(q))

Dispatching(m) ==
  \E t \in Threads : tpc[t] = "handling" /\ batchBuffer[processedCount + 1] = m

(***************************************************************************)
(* C1  FIFO per producer: whenever the handler has seen two messages of    *)
(* one producer, it saw the one sent first before the one sent later       *)
(* (first dispatches; a reprocessed message does not count twice).         *)
(***************************************************************************)
C1_FifoPerProducer ==
  \A a \in Range(log), b \in Range(log) :
    (a[1] = b[1] /\ a[2] < b[2]) => FirstIdx(log, a) < FirstIdx(log, b)

(***************************************************************************)
(* C2  No message loss on restart: when the restart callback has run and   *)
(* the new execution unit has not polled yet, the mailbox holds the batch  *)
(* messages behind the failed one in their order, the failed message at    *)
(* the front iff shouldReprocess, and no message from before the failed    *)
(* one.  Stated for the runs in which no other message is queued and the   *)
(* returned messages fit into the mailbox.                                 *)
(***************************************************************************)
C2_MailboxAfterRestart ==
  (/\ lastUnwind.done /\ ~lastUnwind.polled
   /\ Range(mailbox) \subseteq Range(lastUnwind.batch)
   /\ Len(lastUnwind.batch) - lastUnwind.k + 1 <= capacity) =>
    LET b == lastUnwind.batch
        k == lastUnwind.k
    IN /\ HoldsInOrder(SubSeq(b, k + 1, Len(b)), mailbox)
       /\ lastUnwind.reprocess => (mailbox # <<>> /\ Head(mailbox) = b[k])
       /\ ~lastUnwind.reprocess => b[k] \notin Range(mailbox)
       /\ \A i \in 1 .. (k - 1) : b[i] \notin Range(mailbox)

(***************************************************************************)
(* C3  Zero loss under concurrency: once the loop has unwound a batch for  *)
(* a restart, every drained but undispatched message of the batch is in    *)
(* the mailbox, whatever producers did in the meantime.                    *)
(***************************************************************************)
C3_UnwoundMessagesKept ==
  \A t \in Threads :
    (tpc[t] \in {"exit", "cb_start"} /\ shouldRestart[t]) =>
      Range(Undispatched) \subseteq Range(mailbox)

(***************************************************************************)
(* C4  Liveness of delivery: every message accepted into the mailbox is    *)
(* eventually dispatched to the handler, unless the actor is stopped.      *)
(***************************************************************************)
C4_EventuallyDispatched ==
  \A m \in Messages :
    (m \in accepted) ~> (m \in Range(log) \/ stopRequested)

C17_RestartFrame ==
  [][ \A t \in Threads :
        /\ (tpc[t] = "exit" /\ tpc'[t] = "cb_start") => mailbox' = mailbox
        /\ (tpc[t] = "cb_start" /\ tpc'[t] # "cb_start")
             => /\ mailbox' = mailbox
                /\ actorState' = initialState
                /\ cur' # t
                /\ cur' # cur
                /\ tpc[cur'] = "idle"
                /\ tpc'[cur'] = "poll"
        /\ (tpc[t] \in {"cb_start", "cb_tell", "cb_clear", "done"})
             => tpc'[t] \notin LoopPcs ]_vars

\* After one handled message the second one failed; the actor was restarted
\* with a message queued: the state is initial again, unit 2 is at its poll.
C17_Witness ==
  /\ strategy = "RESTART"
  /\ lastUnwind.k = 2
  /\ cur = 2
  /\ tpc[2] = "poll"
  /\ tpc[1] = "done"
  /\ actorState = initialState
  /\ mailbox # <<>>

C19_SupervisionAlwaysRuns ==
  /\ [](decisions = failures)
  /\ [][ failures' = failures + 1 =>
           /\ decisions' = decisions + 1
           /\ \E t \in Threads :
                tpc[t] = "handling" /\ tpc'[t] \in {"for", "resend"}
           /\ sentBy' = sentBy /\ accepted' = accepted ]_vars

\* A failure for which onError returned true was supervised: the restart
\* it requested carries shouldReprocess.
C19_Witness ==
  /\ decisions = 1
  /\ failures = 1
  /\ pendingRestart # <<>>
  /\ pendingRestart[1].reprocess

(***************************************************************************)
(* C20  Reprocess goes first: after a RESTART with shouldReprocess the     *)
(* first message dispatched after the failure (by the new execution unit)  *)
(* is the failed message.                                                  *)
(***************************************************************************)
C20_ReprocessFirst ==
  (/\ lastUnwind.batch # <<>>
   /\ lastUnwind.reprocess
   /\ Len(log) > lastUnwind.at)
    => log[lastUnwind.at + 1] = lastUnwind.batch[lastUnwind.k]

(***************************************************************************)
(* C23  Return to the front: when the loop has left an interrupted batch   *)
(* and the restart or stop action has not started, the batch messages      *)
(* behind the processed counter are the first messages of the mailbox, in  *)
(* their batch order.                                                      *)
(***************************************************************************)
C23_ReturnedToFront ==
  \A t \in Threads :
    (tpc[t] = "exit" /\ (shouldRestart[t] \/ stopRequested)) =>
      /\ Len(mailbox) >= Len(Undispatched)
      /\ SubSeq(mailbox, 1, Len(Undispatched)) = Undispatched

C25_DeferredRestart ==
  /\ [][ failures' = failures + 1 =>
           /\ cur' = cur /\ actorState' = actorState /\ running' = running
           /\ closure' = closure
           /\ \A t \in Threads : tpc'[t] \in LoopPcs \/ tpc'[t] = tpc[t] ]_vars
  /\ [][ \A t \in Threads :
           (tpc'[t] = "cb_start" /\ tpc[t] # "cb_start")
             => tpc[t] = "exit" /\ shouldRestart[t] ]_vars
  /\ [](\A t \in Threads :
          tpc[t] = "cb_start"
            => /\ ~running
               /\ \A u \in Threads : tpc[u] \notin LoopPcs
               /\ \/ processedCount >= Len(batchBuffer)
                  \/ unwindIdx = Len(batchBuffer) + 1)

\* The restart callback starts after a batch of two whose first message
\* failed: the loop is left and the second message was offered back.
C25_Witness ==
  \E t \in Threads :
    /\ tpc[t] = "cb_start"
    /\ Len(batchBuffer) = 2
    /\ processedCount = 1
    /\ unwindIdx = 3
    /\ batchBuffer[2] \in Range(mailbox)

(***************************************************************************)
(* C26  Restart detected, exactly once: a unit that left the loop for a    *)
(* requested restart finds the callback of its request still pending, and  *)
(* only a unit that observed a request runs a callback.                    *)
(***************************************************************************)
C26_RestartExactlyOnce ==
  \A t \in Threads :
    /\ (tpc[t] = "exit" /\ shouldRestart[t]) => pendingRestart # <<>>
    /\ tpc[t] \in {"cb_start", "cb_tell", "cb_clear"}
         => shouldRestart[t] /\ closure[t] # <<>>

(***************************************************************************)
(* Under RESUME a failure leaves everything but the processed counter as   *)
(* it was, the first execution unit stays in its loop, nothing is          *)
(* requested, and the for loop goes on with the next message of the batch. *)
(***************************************************************************)
ResumeGoesOn ==
  /\ [](strategy = "RESUME"
          => /\ cur = 1 /\ tpc[1] \in LoopPcs
             /\ running /\ ~stopped
             /\ ~restartRequested /\ ~stopRequested /\ pendingRestart = <<>>)
  /\ [][ (strategy = "RESUME" /\ failures' = failures + 1)
           => /\ mailbox' = mailbox
              /\ actorState' = actorState
              /\ batchBuffer' = batchBuffer
              /\ processedCount' = processedCount + 1 ]_vars
  /\ [][ (/\ strategy = "RESUME"
          /\ tpc[1] = "for" /\ tpc'[1] # "for"
          /\ processedCount < Len(batchBuffer))
           => /\ tpc'[1] = "handling"
              /\ log' = Append(log, batchBuffer[processedCount + 1]) ]_vars

C28_BatchShape ==
  /\ [](\A t \in Threads :
          /\ tpc[t] \in {"drain", "for", "handling", "resend", "unwind"}
               => Len(batchBuffer) >= 1 /\ Len(batchBuffer) <= batchSize
          /\ tpc[t] = "drain" => batchSize > 1 /\ ENABLED Drain(t)
          /\ tpc[t] \in {"for", "handling", "resend"}
               => LET d == processedCount + (IF tpc[t] = "handling" THEN 1 ELSE 0)
                  IN /\ d <= Len(batchBuffer) /\ d <= Len(log)
                     /\ SubSeq(log, Len(log) - d + 1, Len(log))
                          = SubSeq(batchBuffer, 1, d))
  /\ [][ \A t \in Threads :
           /\ (tpc[t] = "poll" /\ tpc'[t] \in {"drain", "for"})
                => /\ batchBuffer' = <<Head(mailbox)>>
                   /\ mailbox' = Tail(mailbox)
                   /\ tpc'[t] = "drain" <=> batchSize > 1
           /\ (tpc[t] = "drain" /\ tpc'[t] # "drain")
                => /\ tpc'[t] = "for"
                   /\ batchBuffer' \o mailbox' = batchBuffer \o mailbox
                   /\ Len(batchBuffer') = Min(batchSize, 1 + Len(mailbox)) ]_vars

\* A batch of two was drained from a mailbox that held more; its first
\* message was handled and the second is in the handler.
C28_Witness ==
  \E t \in Threads :
    /\ tpc[t] = "handling"
    /\ batchSize = 2
    /\ Len(batchBuffer) = 2
    /\ processedCount = 1
    /\ mailbox # <<>>
    /\ failures = 0

(***************************************************************************)
(* C29  Capacity invariant: the mailbox never holds more messages than its *)
(* capacity, whatever offers, waiting puts, DROP_OLDEST evictions,         *)
(* high-priority sends, returns of unprocessed batch messages and re-sends *)
(* of a failed message are interleaved; an offer to a full mailbox leaves  *)
(* it unchanged and its message is not accepted.                           *)
(***************************************************************************)
C29_CapacityInvariant ==
  /\ [](Len(mailbox) <= capacity)
  /\ [][ (/\ Len(mailbox) = capacity
          /\ sentBy' # sentBy
          /\ bpOp' \in {"offer", "priority"})
           => mailbox' = mailbox /\ accepted' = accepted ]_vars
  /\ [][ \A t \in Threads :
           (/\ Len(mailbox) = capacity
            /\ tpc[t] \in {"unwind", "cb_tell", "resend"}
            /\ tpc'[t] # tpc[t] \/ unwindIdx' # unwindIdx)
             => mailbox' = mailbox /\ grants' = grants ]_vars

\* The only place of the mailbox was taken by a high-priority send while
\* the actor restarted: the offer that re-sends the failed message was
\* rejected.
C29_Witness ==
  /\ capacity = 1
  /\ Len(mailbox) = 1
  /\ bpOp = "priority"
  /\ grants = <<>>
  /\ \E t \in Threads : tpc[t] = "cb_clear" /\ closure[t][1].reprocess

(***************************************************************************)
(* C30  Single-consumer discipline: at most one execution unit is polling  *)
(* or draining, and every step that removes the head of the mailbox is a   *)
(* step of that one consumer, the current execution unit.                  *)
(***************************************************************************)
C30_SingleConsumer ==
  /\ [](Cardinality({t \in Threads : tpc[t] \in {"poll", "drain"}}) <= 1)
  /\ [][ (/\ mailbox # <<>>
          /\ mailbox' = <<>> \/ Head(mailbox') # Head(mailbox))
           => tpc'[cur] # tpc[cur] ]_vars

(***************************************************************************)
(* C31  State tracks fill ratio.  As claimed: whenever no mailbox          *)
(* operation is in progress the state is CRITICAL if the fill ratio is at  *)
(* or above the critical threshold, whatever operation changed the size.   *)
(* As amended: the state is recomputed by the manager, at a send through   *)
(* the gate and at the periodic metrics update, and right after such a     *)
(* step it is CRITICAL exactly if the fill ratio is at or above the        *)
(* critical threshold; between updates it lags behind the loop's own       *)
(* mailbox operations.                                                     *)
(***************************************************************************)
AtCritical(q) == Len(q) * 100 >= bpConfig.critical * bpConfig.capacity

C34_CustomProtocol ==
  [][ (bpOp' # "poll" /\ isBackpressureActive(bpState))
        => /\ bpOp' \in {"shouldAccept", "shouldAccept,offer",
                          "shouldAccept,makeRoom,offer"}
           /\ bpOp' = "shouldAccept"
                => bpQueue' = bpQueue /\ ~bpResult'
           /\ bpOp' = "shouldAccept,offer"
                => /\ Len(bpQueue) < bpConfig.capacity
                   /\ bpQueue' = Append(bpQueue, bpNextId)
           /\ bpOp' = "shouldAccept,makeRoom,offer"
                => /\ Len(bpQueue) >= bpConfig.capacity
                   /\ \/ bpQueue' = bpQueue
                      \/ bpQueue' = Append(Tail(bpQueue), bpNextId)
           /\ bpResult' <=> /\ bpQueue' # bpQueue
                            /\ bpQueue'[Len(bpQueue')] = bpNextId ]_vars

\* shouldAccept returned true on a full mailbox, makeRoom made no room: the
\* retried offer failed and the send reported a rejection.
C34_Witness ==
  /\ bpOp = "shouldAccept,makeRoom,offer"
  /\ ~bpResult
  /\ Len(bpQueue) = bpConfig.capacity

(***************************************************************************)
(* C35  Stop is eventually observed: once a stop is requested, the actor   *)
(* eventually reaches Stopped, whether the mailbox is empty or not.        *)
(***************************************************************************)
C35_StopObserved == stopRequested ~> stopped

(***************************************************************************)
(* C38  Stop wins over a pending restart: when a stop is requested while a *)
(* restart is pending or its callback is running, the actor ends Stopped   *)
(* with no execution unit left in the loop.                                *)
(***************************************************************************)
InCallback == \E t \in Threads : tpc[t] \in {"cb_start", "cb_tell", "cb_clear"}

C38_StopWins ==
  (stopRequested /\ (pendingRestart # <<>> \/ InCallback))
    ~> (stopped /\ \A t \in Threads : tpc[t] \notin LoopPcs)

(***************************************************************************)
(* C36  Escalation resolved to RESTART keeps the mailbox: when the         *)
(* escalated failure of an actor is resolved to RESTART, the restarted     *)
(* actor's mailbox holds the messages that were queued behind the failed   *)
(* message, as after a RESTART decided by the actor's own strategy.        *)
(***************************************************************************)
C36_EscalatedRestartKeepsMailbox ==
  [][ (hEsc # <<>> /\ hEsc' = <<>> /\ hLast'.kind = "RESTART")
        => hActor'[hEsc[1].failing].mailbox = hEsc[1].queued ]_vars

(***************************************************************************)
(* C37  A sender suspended by BLOCK while the actor restarts or stops      *)
(* eventually returns, and when its call returns accepted the message is   *)
(* in the mailbox of the live actor.                                       *)
(***************************************************************************)
C37_BlockedSenderReturns ==
  /\ \A s \in Senders : Blocked(s) ~> ~Blocked(s)
  /\ [][ \A s \in Senders :
           (Blocked(s) /\ snd'[s].pc = "idle" /\ bpResult')
             => /\ ~stopped'
                /\ \E i \in 1 .. Len(mailbox') :
                      mailbox'[i] = pendingMessage(s) ]_vars

(***************************************************************************)
(* C39  Reprocessing is not subject to capacity rejection: when the        *)
(* restart callback re-submits the failed message (shouldReprocess), the   *)
(* message is in the mailbox afterwards, also when the mailbox was full or *)
(* the backpressure state CRITICAL at that moment.                         *)
(***************************************************************************)
C39_ReprocessNotRejected ==
  [][ \A t \in Threads :
        (tpc[t] = "cb_tell" /\ tpc'[t] = "cb_clear")
          => \E i \in 1 .. Len(mailbox') : mailbox'[i] = closure[t][1].msg ]_vars

(***************************************************************************)
(* C6  Poison-message termination: a message whose handling always throws  *)
(* is, from some point on, never dispatched again.                         *)
(***************************************************************************)
C6_PoisonTerminates ==
  \A m \in Messages : <>[](m \in poison => ~Dispatching(m))

(***************************************************************************)
(* C7  Strictly sequential handler: at most one execution unit is in the   *)
(* MailboxProcessor loop (and so at most one in the handler), also while   *)
(* the old unit of a restart is still running its callback.                *)
(***************************************************************************)
C7_OneLoop ==
  Cardinality({t \in Threads : tpc[t] \in LoopPcs}) <= 1

\* The hand-over: the old unit is still in its callback while the new unit
\* is inside the handler.
C7_Witness ==
  \E t \in Threads, u \in Threads :
    /\ tpc[t] \in {"cb_tell", "cb_clear"}
    /\ tpc[u] = "handling"

====
